---- MODULE Spec2Model ----
(***************************************************************************)
(* Model of the ASL sign-recognition network of src/model.py: the layer    *)
(* pipeline that build_asl_model wires, its construction-time failures,    *)
(* the forward evaluation (shapes, per-sequence data dependencies and the  *)
(* ordered trace of operations), the sinusoidal positional encoding, the   *)
(* get_config / from_config round trip of the two custom layers, and the   *)
(* softmax of the output layer in fixed-point arithmetic.                  *)
(*                                                                         *)
(* Library behaviour (tensorflow.keras layers) is modelled as the layer    *)
(* classes document it: 'same' convolution keeps the length, 'valid'       *)
(* pooling needs a full window, Dropout accepts a rate in [0, 1], a        *)
(* functional Model checks every call against its Input shape.             *)
(***************************************************************************)
EXTENDS Integers, Sequences, FiniteSets, TLC

VARIABLES config, model, last_call, loaded, logits, probs,
          encoding, loader, parser

vars == <<config, model, last_call, loaded, logits, probs,
          encoding, loader, parser>>

(***************************************************************************)
(* Bounds of the explored configurations and calls.                        *)
(***************************************************************************)
MaxFrames == 5
MaxClasses == 2
MaxBatch == 2
MaxTrainPasses == 2
MaxLogit == 2
MaxEmbedDim == 11
MaxEntries == 201
MaxInstances == 2
MaxLines == 3

\* dropout rates are counted in tenths: 3 stands for 0.3
RateUnit == 10

FrameChoices == 1..MaxFrames
LandmarkChoices == {3}
ClassChoices == (-1)..MaxClasses
FilterListChoices == {<<>>, <<4>>, <<4, 8>>, <<4, 8, 16>>}
HeadChoices == {1, 2}
DimChoices == {2, 3, 4}
FFChoices == {4}
RateChoices == {-1, 0, 3, 10, 11}
SequenceIds == {"a", "b"}
Modes == {"training", "inference"}

\* what a caller may pass as the mode of a call
ModeArgs == Modes \cup {"unspecified"}

AllConfigurations ==
    [num_frames : FrameChoices, num_landmarks : LandmarkChoices,
     num_classes : ClassChoices, cnn_filters : FilterListChoices,
     transformer_heads : HeadChoices, transformer_dim : DimChoices,
     ff_dim : FFChoices, dropout_rate : RateChoices]

\* the default configuration of build_asl_model, scaled down
BaseConfig ==
    [num_frames |-> 4, num_landmarks |-> 3, num_classes |-> 2,
     cnn_filters |-> <<4, 8>>, transformer_heads |-> 2, transformer_dim |-> 4,
     ff_dim |-> 4, dropout_rate |-> 3]

\* the aspects in which a configuration departs from the base: the
\* attention shape (heads and width) counts as one
Deviations(c) ==
    {f \in {"num_frames", "num_landmarks", "num_classes", "cnn_filters",
            "ff_dim", "dropout_rate"} : c[f] # BaseConfig[f]}
    \cup (IF c.transformer_heads # BaseConfig.transformer_heads
             \/ c.transformer_dim # BaseConfig.transformer_dim
          THEN {"attention"} ELSE {})

\* explored configurations: the base and every change of one aspect
Configurations == {c \in AllConfigurations : Cardinality(Deviations(c)) <= 1}

NoConfig ==
    [num_frames |-> 0, num_landmarks |-> 0, num_classes |-> 0,
     cnn_filters |-> <<>>, transformer_heads |-> 0, transformer_dim |-> 0,
     ff_dim |-> 0, dropout_rate |-> 0]
NoShape == <<>>
ShapeError == <<-1>>

(***************************************************************************)
(* Hyper-parameters written as literals in build_asl_model.                *)
(***************************************************************************)
kernel_size == 3
pool_size == 2
dense_1_units == 256
dense_2_units == 128

(***************************************************************************)
(* Layer constructors: one record per layer object, holding the arguments  *)
(* the source passes.                                                      *)
(***************************************************************************)
\* variant: no activation inside the convolution layer
Conv1DLinear(name, filters) ==
    [class |-> "Conv1D", name |-> name, units |-> filters,
     kernel |-> kernel_size, padding |-> "same", activation |-> "linear"]

Conv1D(name, filters) ==
    [class |-> "Conv1D", name |-> name, units |-> filters,
     kernel |-> kernel_size, padding |-> "same", activation |-> "relu"]

BatchNormalization(name) ==
    [class |-> "BatchNormalization", name |-> name]

MaxPooling1D(name) ==
    [class |-> "MaxPooling1D", name |-> name, pool |-> pool_size,
     padding |-> "valid"]

Dense(name, units, activation) ==
    [class |-> "Dense", name |-> name, units |-> units,
     activation |-> activation]

Dropout(name, rate) ==
    [class |-> "Dropout", name |-> name, rate |-> rate]

PositionalEncoding(name) ==
    [class |-> "PositionalEncoding", name |-> name]

GlobalAveragePooling1D(name) ==
    [class |-> "GlobalAveragePooling1D", name |-> name]

\* variant: the second feed-forward layer sized by ff_dim
TransformerBlockFfnWidth(name, embed_dim, num_heads, ff_dim, dropout_rate) ==
    [class |-> "TransformerBlock", name |-> name,
     embed_dim |-> embed_dim, num_heads |-> num_heads,
     ff_dim |-> ff_dim, dropout_rate |-> dropout_rate,
     key_dim |-> embed_dim \div num_heads,
     ffn |-> <<Dense("ffn_0", ff_dim, "relu"),
               Dense("ffn_1", ff_dim, "linear")>>,
     dropout1 |-> Dropout("dropout1", dropout_rate),
     dropout2 |-> Dropout("dropout2", dropout_rate)]

\* TransformerBlock.__init__: the attributes it stores and the sub-layers
\* it creates from them
TransformerBlock(name, embed_dim, num_heads, ff_dim, dropout_rate) ==
    [class |-> "TransformerBlock", name |-> name,
     embed_dim |-> embed_dim, num_heads |-> num_heads,
     ff_dim |-> ff_dim, dropout_rate |-> dropout_rate,
     key_dim |-> embed_dim \div num_heads,
     ffn |-> <<Dense("ffn_0", ff_dim, "relu"),
               Dense("ffn_1", embed_dim, "linear")>>,
     dropout1 |-> Dropout("dropout1", dropout_rate),
     dropout2 |-> Dropout("dropout2", dropout_rate)]

\* keras Dropout.__init__ rejects a rate outside the closed interval [0, 1]
DropoutRateOK(rate) == 0 <= rate /\ rate <= RateUnit

\* keras Dense.__init__ rejects a negative number of units
DenseUnitsOK(units) == units >= 0

\* the exception a layer's constructor raises, "none" when it constructs
LayerInitError(l) ==
    IF l.class = "Dropout" /\ ~DropoutRateOK(l.rate) THEN "ValueError"
    ELSE IF l.class = "Dense" /\ ~DenseUnitsOK(l.units) THEN "ValueError"
    ELSE IF l.class = "TransformerBlock" /\ ~DropoutRateOK(l.dropout_rate)
         THEN "ValueError"
    ELSE "none"

(***************************************************************************)
(* Shapes.  A shape is the tuple of sizes after the batch axis: <<L, C>>   *)
(* for a sequence tensor, <<C>> after global pooling.                      *)
(***************************************************************************)
Min(a, b) == IF a <= b THEN a ELSE b

LastDim(s) == s[Len(s)]

WithLastDim(s, n) == [s EXCEPT ![Len(s)] = n]

\* a shape given n axes by putting axes of size 1 in front
PadShape(s, n) ==
    [k \in 1..n |-> IF k <= n - Len(s) THEN 1 ELSE s[k - (n - Len(s))]]

\* element-wise addition of two tensors: the broadcast shape, or ShapeError.
\* The trailing axes are aligned; two sizes agree when they are equal or
\* one of them is 1.
AddShapes(s1, s2) ==
    IF s1 = ShapeError \/ s2 = ShapeError
    THEN ShapeError
    ELSE LET n == IF Len(s1) >= Len(s2) THEN Len(s1) ELSE Len(s2)
             a == PadShape(s1, n)
             b == PadShape(s2, n)
         IN  IF \A k \in 1..n : a[k] = b[k] \/ a[k] = 1 \/ b[k] = 1
             THEN [k \in 1..n |-> IF a[k] = 1 THEN b[k] ELSE a[k]]
             ELSE ShapeError

\* Conv1D over the time axis, stride 1
ConvLength(n, kernel, padding) ==
    IF padding = "same" THEN n ELSE n - kernel + 1

\* MaxPooling1D, strides = pool_size, 'valid' padding: a window wider than
\* the input is rejected (-1), otherwise floor((n - pool) / pool) + 1
PoolLength(n, pool) ==
    IF n < pool THEN -1 ELSE ((n - pool) \div pool) + 1

(***************************************************************************)
(* PositionalEncoding.call.  An angle p / 10000^(e / D) is kept as the     *)
(* pair (p, e); position 0 is the zero angle whatever the exponent.        *)
(* Matrices are sequences of rows, indices shifted by one: row p + 1,      *)
(* column i + 1.                                                           *)
(***************************************************************************)
Angle(p, i) == [p |-> p, e |-> IF p = 0 THEN 0 ELSE 2 * (i \div 2)]

Sin(a) == [fn |-> "sin", p |-> a.p, e |-> a.e]

Cos(a) == [fn |-> "cos", p |-> a.p, e |-> a.e]

\* angles[p, i] for p < L, i < D
Angles(L, D) == [p \in 1..L |-> [i \in 1..D |-> Angle(p - 1, i - 1)]]

\* variant: a slice that rounds its length down
StridedSliceFloor(row, start) ==
    [j \in 1..((Len(row) - start) \div 2) |-> row[start + 2 * (j - 1) + 1]]

\* row[start::2], for a 0-based start
StridedSlice(row, start) ==
    [j \in 1..((Len(row) - start + 1) \div 2) |-> row[start + 2 * (j - 1) + 1]]

MapSeq(F(_), row) == [j \in 1..Len(row) |-> F(row[j])]

\* pos_encoding = concat([sin(angles[:, 0::2]), cos(angles[:, 1::2])])[:, :D]
PosEncodingRow(row) ==
    MapSeq(Sin, StridedSlice(row, 0)) \o MapSeq(Cos, StridedSlice(row, 1))

PosEncoding(L, D) ==
    LET angles == Angles(L, D)
    IN  [p \in 1..L |-> SubSeq(PosEncodingRow(angles[p]), 1,
                               Min(D, Len(PosEncodingRow(angles[p]))))]

\* the shape of pos_encoding: L rows, each as wide as the truncated
\* concatenation of the two slices of a row of D angles
PosEncodingShape(L, D) ==
    LET row == PosEncodingRow([i \in 1..D |-> Angle(0, i - 1)])
    IN  <<L, Min(D, Len(row))>>

(***************************************************************************)
(* Forward evaluation.  A tensor in flight carries                         *)
(*   shape : its shape after the batch axis (ShapeError once an op failed) *)
(*   rows  : per sequence of the batch, what its values are computed from: *)
(*           x     the input sequence itself,                              *)
(*           batch the whole input batch once batch statistics entered,    *)
(*           seed  the dropout mask once a dropout was active,             *)
(*           stats the running statistics once they were read              *)
(*   trace : the operations applied so far, in order, each with its        *)
(*           output shape                                                  *)
(*   pe    : the positional matrix added by PositionalEncoding             *)
(* ctx is the call: the mode, the batch, the mask seed, the running        *)
(* statistics at the call.                                                 *)
(***************************************************************************)
Op(layer, op, how, n, shape) ==
    [layer |-> layer, op |-> op, how |-> how, n |-> n, shape |-> shape]

Emit(t, layer, op, how, n, shape) ==
    [t EXCEPT !.shape = shape,
              !.trace = Append(t.trace, Op(layer, op, how, n, shape))]

MapRows(t, F(_)) == [t EXCEPT !.rows = [b \in 1..Len(t.rows) |-> F(t.rows[b])]]

\* Dense: position-wise affine map of the last axis, then the activation
DenseCall(l, t) ==
    LET s == WithLastDim(t.shape, l.units)
        t1 == Emit(t, l.name, "dense", "linear", l.units, s)
    IN  IF l.activation = "linear" THEN t1
        ELSE Emit(t1, l.name, "activation", l.activation, 0, s)

\* Dropout: active only in a training call with a positive rate
DropoutCall(l, t, ctx) ==
    IF ctx.mode = "training" /\ l.rate > 0
    THEN MapRows(Emit(t, l.name, "dropout", "drop", l.rate, t.shape),
                 LAMBDA r : [r EXCEPT !.seed = ctx.seed])
    ELSE Emit(t, l.name, "dropout", "identity", 0, t.shape)

\* Conv1D with activation='relu': the activation is part of the layer
Conv1DCall(l, t) ==
    LET s == <<ConvLength(t.shape[1], l.kernel, l.padding), l.units>>
        t1 == Emit(t, l.name, "conv1d", l.padding, l.kernel, s)
    IN  IF l.activation = "linear" THEN t1
        ELSE Emit(t1, l.name, "activation", l.activation, 0, s)

\* variant: batch statistics whatever the mode
BatchNormalizationCallBatchOnly(l, t, ctx) ==
    MapRows(Emit(t, l.name, "batchnorm", "batch", 0, t.shape),
            LAMBDA r : [r EXCEPT !.batch = ctx.batch])

\* BatchNormalization: statistics of the current batch in training mode,
\* the running mean and variance in inference mode
BatchNormalizationCall(l, t, ctx) ==
    IF ctx.mode = "training"
    THEN MapRows(Emit(t, l.name, "batchnorm", "batch", 0, t.shape),
                 LAMBDA r : [r EXCEPT !.batch = ctx.batch])
    ELSE MapRows(Emit(t, l.name, "batchnorm", "moving", 0, t.shape),
                 LAMBDA r : [r EXCEPT !.stats = ctx.stats])

MaxPooling1DCall(l, t) ==
    LET n == PoolLength(t.shape[1], l.pool)
        s == IF n < 0 THEN ShapeError ELSE <<n, t.shape[2]>>
    IN  Emit(t, l.name, "maxpool", l.padding, l.pool, s)

PositionalEncodingCall(l, t) ==
    LET L == t.shape[1]
        D == t.shape[2]
        s == AddShapes(t.shape, PosEncodingShape(L, D))
    IN  [Emit(t, l.name, "add_positions", "sincos", D, s)
            EXCEPT !.pe = PosEncoding(L, D)]

GlobalAveragePooling1DCall(l, t) ==
    Emit(t, l.name, "mean_over_time", "avg", 0, <<t.shape[2]>>)

\* MultiHeadAttention(query, value): attention over the time axis of each
\* sequence, output projected back to the query's last dimension
AttentionCall(l, t) ==
    Emit(t, l.name, "attention", "self", l.num_heads, t.shape)

\* variant: the second residual connection taken from the block's input
TransformerBlockCallSecondResidualFromInputs(l, t, ctx) ==
    LET inputs == t
        attention_output == DropoutCall([l.dropout1 EXCEPT !.name = l.name],
                                        AttentionCall(l, inputs), ctx)
        sum1 == Emit(attention_output, l.name, "add", "inputs", 0,
                     AddShapes(inputs.shape, attention_output.shape))
        x == Emit(sum1, l.name, "layernorm", "1", 0, sum1.shape)
        ffn0 == DenseCall([l.ffn[1] EXCEPT !.name = l.name], x)
        ffn1 == DenseCall([l.ffn[2] EXCEPT !.name = l.name], ffn0)
        ffn_output == DropoutCall([l.dropout2 EXCEPT !.name = l.name],
                                  ffn1, ctx)
        sum2 == Emit(ffn_output, l.name, "add", "inputs", 0,
                     AddShapes(inputs.shape, ffn_output.shape))
    IN  Emit(sum2, l.name, "layernorm", "2", 0, sum2.shape)

\* TransformerBlock.call(inputs, training)
TransformerBlockCall(l, t, ctx) ==
    LET inputs == t
        attention_output == DropoutCall([l.dropout1 EXCEPT !.name = l.name],
                                        AttentionCall(l, inputs), ctx)
        sum1 == Emit(attention_output, l.name, "add", "inputs", 0,
                     AddShapes(inputs.shape, attention_output.shape))
        x == Emit(sum1, l.name, "layernorm", "1", 0, sum1.shape)
        ffn0 == DenseCall([l.ffn[1] EXCEPT !.name = l.name], x)
        ffn1 == DenseCall([l.ffn[2] EXCEPT !.name = l.name], ffn0)
        ffn_output == DropoutCall([l.dropout2 EXCEPT !.name = l.name],
                                  ffn1, ctx)
        sum2 == Emit(ffn_output, l.name, "add", "x", 0,
                     AddShapes(x.shape, ffn_output.shape))
    IN  Emit(sum2, l.name, "layernorm", "2", 0, sum2.shape)

LayerCall(l, t, ctx) ==
    IF t.shape = ShapeError THEN t
    ELSE CASE l.class = "Conv1D" -> Conv1DCall(l, t)
           [] l.class = "BatchNormalization" -> BatchNormalizationCall(l, t, ctx)
           [] l.class = "MaxPooling1D" -> MaxPooling1DCall(l, t)
           [] l.class = "Dense" -> DenseCall(l, t)
           [] l.class = "PositionalEncoding" -> PositionalEncodingCall(l, t)
           [] l.class = "Dropout" -> DropoutCall(l, t, ctx)
           [] l.class = "TransformerBlock" -> TransformerBlockCall(l, t, ctx)
           [] l.class = "GlobalAveragePooling1D" ->
                  GlobalAveragePooling1DCall(l, t)

RECURSIVE CallLayers(_, _, _, _)
CallLayers(layers, k, t, ctx) ==
    IF k > Len(layers) THEN t
    ELSE CallLayers(layers, k + 1, LayerCall(layers[k], t, ctx), ctx)

InputTensor(shape, batch) ==
    [shape |-> shape,
     rows |-> [b \in 1..Len(batch) |->
                  [x |-> batch[b], batch |-> <<>>, seed |-> 0, stats |-> -1]],
     trace |-> <<>>,
     pe |-> <<>>]

(***************************************************************************)
(* build_asl_model.  The layers are created and wired in source order;     *)
(* the first exception ends the construction.                              *)
(***************************************************************************)
NoModel ==
    [status |-> "none", error |-> "none", failed_at |-> "none",
     input_shape |-> NoShape, layers |-> <<>>, output_shape |-> NoShape,
     stats |-> 0]

\* construction ended by an exception raised at the named layer
Failed(error, at) ==
    [NoModel EXCEPT !.status = "failed", !.error = error, !.failed_at = at]

BuildContext == [mode |-> "inference", batch |-> <<>>, seed |-> 0, stats |-> 0]

\* index of the first layer whose construction or symbolic call fails,
\* 0 when the whole chain wires
RECURSIVE FirstFailure(_, _, _)
FirstFailure(layers, k, t) ==
    IF k > Len(layers) THEN 0
    ELSE IF LayerInitError(layers[k]) # "none" THEN k
    ELSE LET t1 == LayerCall(layers[k], t, BuildContext)
         IN  IF t1.shape = ShapeError THEN k
             ELSE FirstFailure(layers, k + 1, t1)

\* Model(inputs, outputs) over a chain of layers
Wire(input_shape, layers) ==
    LET inputs == InputTensor(input_shape, <<>>)
        bad == FirstFailure(layers, 1, inputs)
    IN  IF bad # 0 THEN Failed("ValueError", layers[bad].name)
        ELSE [status |-> "built", error |-> "none", failed_at |-> "none",
              input_shape |-> input_shape, layers |-> layers,
              output_shape |-> CallLayers(layers, 1, inputs, BuildContext).shape,
              stats |-> 0]

\* variant: the output layer without its activation
OutputLayerLinear(num_classes) == Dense("output", num_classes, "linear")

\* outputs = Dense(num_classes, activation='softmax', name='output')
OutputLayer(num_classes) == Dense("output", num_classes, "softmax")

\* variant: the dropout on the encoded sequence moved behind the block
build_asl_modelDropoutAfterBlock(c) ==
    IF Len(c.cnn_filters) < 1 THEN Failed("IndexError", "conv1d_1")
    ELSE IF Len(c.cnn_filters) < 2 THEN Failed("IndexError", "conv1d_2")
    ELSE Wire(<<c.num_frames, c.num_landmarks>>,
              <<Conv1D("conv1d_1", c.cnn_filters[1]),
                BatchNormalization("bn_1"),
                Conv1D("conv1d_2", c.cnn_filters[2]),
                BatchNormalization("bn_2"),
                MaxPooling1D("maxpool"),
                Dense("projection", c.transformer_dim, "linear"),
                PositionalEncoding("positional_encoding"),
                TransformerBlock("transformer_block", c.transformer_dim,
                                 c.transformer_heads, c.ff_dim, c.dropout_rate),
                Dropout("pos_dropout", c.dropout_rate),
                GlobalAveragePooling1D("global_avg_pool"),
                Dense("dense_1", dense_1_units, "relu"),
                Dropout("dropout_1", c.dropout_rate),
                Dense("dense_2", dense_2_units, "relu"),
                Dropout("dropout_2", c.dropout_rate),
                OutputLayer(c.num_classes)>>)

build_asl_model(c) ==
    IF Len(c.cnn_filters) < 1 THEN Failed("IndexError", "conv1d_1")
    ELSE IF Len(c.cnn_filters) < 2 THEN Failed("IndexError", "conv1d_2")
    ELSE Wire(<<c.num_frames, c.num_landmarks>>,
              <<Conv1D("conv1d_1", c.cnn_filters[1]),
                BatchNormalization("bn_1"),
                Conv1D("conv1d_2", c.cnn_filters[2]),
                BatchNormalization("bn_2"),
                MaxPooling1D("maxpool"),
                Dense("projection", c.transformer_dim, "linear"),
                PositionalEncoding("positional_encoding"),
                Dropout("pos_dropout", c.dropout_rate),
                TransformerBlock("transformer_block", c.transformer_dim,
                                 c.transformer_heads, c.ff_dim, c.dropout_rate),
                GlobalAveragePooling1D("global_avg_pool"),
                Dense("dense_1", dense_1_units, "relu"),
                Dropout("dropout_1", c.dropout_rate),
                Dense("dense_2", dense_2_units, "relu"),
                Dropout("dropout_2", c.dropout_rate),
                OutputLayer(c.num_classes)>>)

(***************************************************************************)
(* A call of the model on a batch of shape (B, frames, width).  The        *)
(* functional Model rejects an input that does not match its Input layer.  *)
(***************************************************************************)
NoOutput == [shape |-> NoShape, rows |-> <<>>, trace |-> <<>>, pe |-> <<>>]

\* variant: no check of the input against the Input layer
ForwardUnchecked(m, mode, batch, frames, width, seed) ==
    [status |-> "ok", error |-> "none",
     out |-> CallLayers(m.layers, 1, InputTensor(<<frames, width>>, batch),
                        [mode |-> mode, batch |-> batch, seed |-> seed,
                         stats |-> m.stats])]

Forward(m, mode, batch, frames, width, seed) ==
    IF <<frames, width>> # m.input_shape
    THEN [status |-> "error", error |-> "ValueError", out |-> NoOutput]
    ELSE [status |-> "ok", error |-> "none",
          out |-> CallLayers(m.layers, 1, InputTensor(<<frames, width>>, batch),
                             [mode |-> mode, batch |-> batch, seed |-> seed,
                              stats |-> m.stats])]

\* the mode a call runs in: the mode it states, and inference when it states
\* none (call(self, inputs, training=False); predict states no mode)
ResolveMode(mode_arg) ==
    IF mode_arg = "unspecified" THEN "inference" ELSE mode_arg

\* one evaluation: what the caller passed, what came back, and the warnings
\* issued on the way (the code issues none)
Call(m, mode_arg, batch, frames, width, seed) ==
    LET mode == ResolveMode(mode_arg)
        r == Forward(m, mode, batch, frames, width, seed)
    IN  [mode_arg |-> mode_arg, mode |-> mode, batch |-> batch,
         in_shape |-> <<Len(batch), frames, width>>,
         seed |-> seed, stats |-> m.stats, status |-> r.status,
         error |-> r.error, warnings |-> {},
         out_shape |-> IF r.status = "ok" THEN <<Len(batch)>> \o r.out.shape
                       ELSE NoShape,
         rows |-> r.out.rows, trace |-> r.out.trace, pe |-> r.out.pe]

\* before any call
NoCall ==
    [mode_arg |-> "none", mode |-> "none", batch |-> <<>>,
     in_shape |-> NoShape, seed |-> 0, stats |-> 0, status |-> "none",
     error |-> "none", warnings |-> {}, out_shape |-> NoShape,
     rows |-> <<>>, trace |-> <<>>, pe |-> <<>>]

Batches == UNION {[1..n -> SequenceIds] : n \in 1..MaxBatch}

(***************************************************************************)
(* Serialization: a layer is described by its class name and get_config(), *)
(* and rebuilt by from_config, which calls the class with these arguments. *)
(* The source saves nothing itself; the parameter values are not part of   *)
(* a configuration.                                                        *)
(***************************************************************************)
\* variant: num_heads saved from the wrong attribute
TransformerBlockGetConfigSwapped(l) ==
    [name |-> l.name, embed_dim |-> l.embed_dim, num_heads |-> l.embed_dim,
     ff_dim |-> l.ff_dim, dropout_rate |-> l.dropout_rate]

\* TransformerBlock.get_config: the base config (name) plus four entries
TransformerBlockGetConfig(l) ==
    [name |-> l.name, embed_dim |-> l.embed_dim, num_heads |-> l.num_heads,
     ff_dim |-> l.ff_dim, dropout_rate |-> l.dropout_rate]

\* PositionalEncoding.get_config: the base config only
PositionalEncodingGetConfig(l) == [name |-> l.name]

GetConfig(l) ==
    [class_name |-> l.class,
     config |-> CASE l.class = "TransformerBlock" -> TransformerBlockGetConfig(l)
                  [] l.class = "PositionalEncoding" ->
                         PositionalEncodingGetConfig(l)
                  [] OTHER -> l]

FromConfig(s) ==
    CASE s.class_name = "TransformerBlock" ->
             TransformerBlock(s.config.name, s.config.embed_dim,
                              s.config.num_heads, s.config.ff_dim,
                              s.config.dropout_rate)
      [] s.class_name = "PositionalEncoding" ->
             PositionalEncoding(s.config.name)
      [] OTHER -> s.config

\* the model rebuilt from the configurations of its layers alone: the
\* configurations carry no parameter values
ModelFromConfig(m) ==
    Wire(m.input_shape,
         [k \in 1..Len(m.layers) |-> FromConfig(GetConfig(m.layers[k]))])

(***************************************************************************)
(* The state machine: one model is built from a configuration, called any  *)
(* number of times in either mode, and rebuilt from its layers'            *)
(* configurations.  last_call is the most recent call with its result.     *)
(***************************************************************************)
\* the state of the parts of the repository that a specification leaves idle
NoEncoding == [L |-> 0, D |-> 0, done |-> FALSE, out |-> NoOutput]

NoLoader == [pc |-> "idle"]

NoParser == [pc |-> "idle"]

\* the batches that are called: sequence names are interchangeable, so the
\* first sequence of a batch is named "a"
CallBatches == {batch \in Batches : batch[1] = "a"}

\* inputs of a call: every batch in the model's input shape, and one
\* sequence with a frame or a landmark missing
CallShapes(m, batch) ==
    IF m.status # "built" THEN {}
    ELSE IF batch = <<"a">>
    THEN {m.input_shape, <<m.input_shape[1] - 1, m.input_shape[2]>>,
          <<m.input_shape[1], m.input_shape[2] - 1>>}
    ELSE {m.input_shape}

InputWidths == LandmarkChoices \cup {w - 1 : w \in LandmarkChoices}

Init ==
    /\ config = NoConfig
    /\ model = NoModel
    /\ last_call = NoCall
    /\ loaded = NoModel
    /\ logits = <<>>
    /\ probs = <<>>
    /\ encoding = NoEncoding
    /\ loader = NoLoader
    /\ parser = NoParser

Build(c) ==
    /\ model.status = "none"
    /\ config' = c
    /\ model' = build_asl_model(c)
    /\ UNCHANGED <<last_call, loaded, logits, probs,
                 encoding, loader, parser>>

\* the dropout masks a training pass may draw; other passes draw none
MaskSeeds == {1, 2}

SeedsOf(mode_arg) ==
    IF ResolveMode(mode_arg) = "training" THEN MaskSeeds ELSE {0}

\* variant: every pass updates the running statistics
EvaluateAlwaysUpdates(mode_arg, batch, frames, width, seed) ==
    /\ model.status = "built"
    /\ <<frames, width>> \in CallShapes(model, batch)
    /\ seed \in SeedsOf(mode_arg)
    /\ model.stats < MaxTrainPasses
    /\ last_call' = Call(model, mode_arg, batch, frames, width, seed)
    /\ model' = IF last_call'.status = "ok"
                THEN [model EXCEPT !.stats = @ + 1]
                ELSE model
    /\ UNCHANGED <<config, loaded, logits, probs,
                 encoding, loader, parser>>

\* a training-mode pass draws a dropout mask and updates the running
\* statistics of bn_1 and bn_2; a pass in inference mode, stated or by
\* default, writes nothing
Evaluate(mode_arg, batch, frames, width, seed) ==
    /\ model.status = "built"
    /\ <<frames, width>> \in CallShapes(model, batch)
    /\ seed \in SeedsOf(mode_arg)
    /\ mode_arg = "training" => model.stats < MaxTrainPasses
    /\ last_call' = Call(model, mode_arg, batch, frames, width, seed)
    /\ model' = IF last_call'.mode = "training" /\ last_call'.status = "ok"
                THEN [model EXCEPT !.stats = @ + 1]
                ELSE model
    /\ UNCHANGED <<config, loaded, logits, probs,
                 encoding, loader, parser>>

\* the layers rebuilt from get_config() by from_config
Reconstruct ==
    /\ model.status = "built"
    /\ loaded.status = "none"
    /\ loaded' = ModelFromConfig(model)
    /\ UNCHANGED <<config, model, last_call, logits, probs,
                   encoding, loader, parser>>

Next ==
    \/ \E c \in Configurations : Build(c)
    \/ \E mode_arg \in ModeArgs, batch \in CallBatches,
          seed \in MaskSeeds \cup {0},
          frames \in 0..MaxFrames, width \in InputWidths :
            Evaluate(mode_arg, batch, frames, width, seed)
    \/ Reconstruct

Spec == Init /\ [][Next]_vars

(***************************************************************************)
(* The activation of the output layer on the logits of one sequence, in    *)
(* fixed-point arithmetic: a probability q is the integer                  *)
(* round(q * ProbScale).  Logits are integers, so exp is needed only at    *)
(* integers; as in the library, softmax subtracts the largest logit first, *)
(* and exp of a very negative argument underflows to 0.                    *)
(***************************************************************************)
ProbScale == 10 ^ 6

\* 1e-5 in fixed point
Tolerance == ProbScale \div (10 ^ 5)

\* round(ProbScale * e^d) for an integer d <= 0
ExpFixed(d) ==
    CASE d = 0 -> ProbScale
      [] d = -1 -> 367879
      [] d = -2 -> 135335
      [] d = -3 -> 49787
      [] d = -4 -> 18316
      [] d = -5 -> 6738
      [] d = -6 -> 2479
      [] d = -7 -> 912
      [] d = -8 -> 335
      [] d = -9 -> 123
      [] d = -10 -> 45
      [] d = -11 -> 17
      [] d = -12 -> 6
      [] d = -13 -> 2
      [] d = -14 -> 1
      [] OTHER -> 0

RECURSIVE SumSeq(_)
SumSeq(z) == IF z = <<>> THEN 0 ELSE z[1] + SumSeq(Tail(z))

RECURSIVE MaxSeq(_)
MaxSeq(z) ==
    IF Len(z) = 1 THEN z[1]
    ELSE LET m == MaxSeq(Tail(z)) IN IF z[1] >= m THEN z[1] ELSE m

\* the digits of r / b after the point, down to the unit, rounded to
\* nearest, for 0 <= r < b
RECURSIVE FracDigits(_, _, _)
FracDigits(r, b, unit) ==
    IF unit = 1 THEN (IF 2 * r >= b THEN 1 ELSE 0)
    ELSE ((10 * r) \div b) * (unit \div 10)
         + FracDigits((10 * r) % b, b, unit \div 10)

\* round(ProbScale * a / b) for a >= 0 and b > 0
FixedDiv(a, b) == (a \div b) * ProbScale + FracDigits(a % b, b, ProbScale)

\* softmax(z)[i] = exp(z[i] - max z) / sum_j exp(z[j] - max z)
Softmax(z) ==
    LET m == MaxSeq(z)
        e == [i \in 1..Len(z) |-> ExpFixed(z[i] - m)]
        total == SumSeq(e)
    IN  [i \in 1..Len(z) |-> FixedDiv(e[i], total)]

Relu(z) == [i \in 1..Len(z) |-> IF z[i] > 0 THEN z[i] * ProbScale ELSE 0]

Linear(z) == [i \in 1..Len(z) |-> z[i] * ProbScale]

Activation(name, z) ==
    CASE name = "softmax" -> Softmax(z)
      [] name = "relu" -> Relu(z)
      [] OTHER -> Linear(z)

\* the last operation of a forward evaluation of m in the given mode
FinalOp(m, mode) ==
    LET trace == Forward(m, mode, <<"a">>, m.input_shape[1],
                         m.input_shape[2], 1).out.trace
    IN  trace[Len(trace)]

LogitChoices == (-MaxLogit)..MaxLogit

\* a built model with at least one class, and the logits its output layer
\* computed for one sequence
InitPredict ==
    /\ config \in {c \in Configurations :
                      c.num_classes >= 1 /\ build_asl_model(c).status = "built"}
    /\ model = build_asl_model(config)
    /\ last_call = NoCall
    /\ loaded = NoModel
    /\ logits \in [1..config.num_classes -> LogitChoices]
    /\ probs = <<>>
    /\ encoding = NoEncoding
    /\ loader = NoLoader
    /\ parser = NoParser

\* the output row of one sequence
Predict(mode) ==
    /\ probs = <<>>
    /\ probs' = Activation(FinalOp(model, mode).how, logits)
    /\ UNCHANGED <<config, model, last_call, loaded, logits,
                 encoding, loader, parser>>

NextPredict == \E mode \in Modes : Predict(mode)

SpecPredict == InitPredict /\ [][NextPredict]_vars

(***************************************************************************)
(* PositionalEncoding on its own: the layer called on one sequence of L    *)
(* positions and D channels, for every L and D in the bounds.              *)
(***************************************************************************)
EncodingLengths == 1..MaxFrames

EncodingWidths == 1..MaxEmbedDim

InitEncoding ==
    /\ config = NoConfig
    /\ model = NoModel
    /\ last_call = NoCall
    /\ loaded = NoModel
    /\ logits = <<>>
    /\ probs = <<>>
    /\ encoding \in {[L |-> L, D |-> D, done |-> FALSE, out |-> NoOutput] :
                        L \in EncodingLengths, D \in EncodingWidths}
    /\ loader = NoLoader
    /\ parser = NoParser

\* PositionalEncoding.call(inputs) for inputs of shape (1, L, D)
Encode ==
    /\ ~encoding.done
    /\ encoding' =
          [encoding EXCEPT
             !.done = TRUE,
             !.out = PositionalEncodingCall(
                         PositionalEncoding("positional_encoding"),
                         InputTensor(<<encoding.L, encoding.D>>, <<"a">>))]
    /\ UNCHANGED <<config, model, last_call, loaded, logits, probs,
                   loader, parser>>

NextEncoding == Encode

SpecEncoding == InitEncoding /\ [][NextEncoding]_vars

(***************************************************************************)
(* WLASLDatabaseManager.insert_words_and_videos (populate_database.py).    *)
(* An entry of wlasl_data is a gloss and a number of instances (0 for a    *)
(* missing, None or empty list).  The tables are seen twice: db is what    *)
(* the open transaction sees, committed is what the last commit made       *)
(* durable.  A words row is keyed by its gloss (the id that lastrowid or   *)
(* the SELECT returns stands for it); a videos row is keyed by the entry   *)
(* and the index of its instance; the other columns are not modelled.      *)
(* Every statement sent to MySQL (execute or commit) either succeeds or    *)
(* raises mysql.connector.Error.  A commit that raises has made nothing    *)
(* durable.  The tables are empty when the loader starts.                  *)
(***************************************************************************)
CommitEvery == 100

EntryCounts == {0, 1, MaxEntries \div 2, MaxEntries}

\* every SkipPeriod-th entry has no instances (0: none is skipped)
SkipPeriods == {0, 3}

\* glosses repeat with this period (0: all glosses differ)
GlossPeriods == {0, CommitEvery + 20}

Entry(i, skip, period) ==
    [gloss |-> IF period = 0 THEN i ELSE ((i - 1) % period) + 1,
     instances |-> IF skip > 0 /\ i % skip = 0 THEN 0
                   ELSE 1 + (i % MaxInstances)]

WlaslData ==
    {[i \in 1..n |-> Entry(i, skip, period)] :
        n \in EntryCounts, skip \in SkipPeriods, period \in GlossPeriods}

EmptyTables == [words |-> {}, videos |-> {}]

\* INSERT INTO words ... ON DUPLICATE KEY UPDATE sample_count = ...
InsertWordRow(tables, gloss, sample_count) ==
    [tables EXCEPT
       !.words = {w \in @ : w.gloss # gloss}
                 \cup {[gloss |-> gloss, sample_count |-> sample_count]}]

\* INSERT INTO videos ...
InsertVideoRow(tables, gloss, entry, idx) ==
    [tables EXCEPT
       !.videos = @ \cup {[gloss |-> gloss, entry |-> entry, idx |-> idx]}]

\* variant: the commit counted in videos
CommitDueByVideos(l) == l.total_videos % CommitEvery = 0

\* if total_words % 100 == 0
CommitDue(l) == l.total_words % CommitEvery = 0

Running(l) == l.pc \in {"entry", "videos"}

AtEntry(l) == l.pc = "entry" /\ l.pos <= Len(l.wlasl_data)

InitInsert ==
    /\ config = NoConfig
    /\ model = NoModel
    /\ last_call = NoCall
    /\ loaded = NoModel
    /\ logits = <<>>
    /\ probs = <<>>
    /\ encoding = NoEncoding
    /\ loader \in {[pc |-> "entry", wlasl_data |-> data, pos |-> 1, vid |-> 0,
                     total_words |-> 0, total_videos |-> 0,
                     skipped_words |-> 0, completed |-> 0,
                     db |-> EmptyTables, committed |-> EmptyTables] :
                       data \in WlaslData}
    /\ parser = NoParser

\* an entry without instances: skipped_words += 1; continue
SkipEntry ==
    /\ AtEntry(loader)
    /\ loader.wlasl_data[loader.pos].instances = 0
    /\ loader' = [loader EXCEPT !.skipped_words = @ + 1, !.pos = @ + 1]
    /\ UNCHANGED <<config, model, last_call, loaded, logits, probs,
                   encoding, parser>>

\* the word is inserted or its sample_count updated; total_words += 1
InsertWord ==
    /\ AtEntry(loader)
    /\ loader.wlasl_data[loader.pos].instances > 0
    /\ LET entry == loader.wlasl_data[loader.pos]
       IN  loader' = [loader EXCEPT
                        !.db = InsertWordRow(@, entry.gloss, entry.instances),
                        !.total_words = @ + 1,
                        !.vid = 1,
                        !.pc = "videos"]
    /\ UNCHANGED <<config, model, last_call, loaded, logits, probs,
                   encoding, parser>>

\* one pass of the loop over the instances; total_videos += 1
InsertVideo ==
    /\ loader.pc = "videos"
    /\ loader.vid <= loader.wlasl_data[loader.pos].instances
    /\ loader' = [loader EXCEPT
                     !.db = InsertVideoRow(@, loader.wlasl_data[loader.pos].gloss,
                                           loader.pos, loader.vid),
                     !.total_videos = @ + 1,
                     !.vid = @ + 1]
    /\ UNCHANGED <<config, model, last_call, loaded, logits, probs,
                   encoding, parser>>

\* the end of a word's pass: the commit when one is due, and the next entry
EndWord ==
    /\ loader.pc = "videos"
    /\ loader.vid > loader.wlasl_data[loader.pos].instances
    /\ loader' = [loader EXCEPT
                     !.committed = IF CommitDue(loader) THEN loader.db ELSE @,
                     !.completed = @ + 1,
                     !.pos = @ + 1,
                     !.pc = "entry"]
    /\ UNCHANGED <<config, model, last_call, loaded, logits, probs,
                   encoding, parser>>

\* the commit after the loop
FinalCommit ==
    /\ loader.pc = "entry"
    /\ loader.pos > Len(loader.wlasl_data)
    /\ loader' = [loader EXCEPT !.committed = loader.db, !.pc = "done"]
    /\ UNCHANGED <<config, model, last_call, loaded, logits, probs,
                   encoding, parser>>

\* the next statement is sent to MySQL
SendsStatement(l) ==
    \/ AtEntry(l) /\ l.wlasl_data[l.pos].instances > 0
    \/ l.pc = "videos" /\ l.vid <= l.wlasl_data[l.pos].instances
    \/ l.pc = "videos" /\ l.vid > l.wlasl_data[l.pos].instances
          /\ CommitDue(l)
    \/ l.pc = "entry" /\ l.pos > Len(l.wlasl_data)

\* except Error: the statement raised; self.connection.rollback()
RaiseError ==
    /\ Running(loader)
    /\ SendsStatement(loader)
    /\ loader' = [loader EXCEPT !.db = loader.committed, !.pc = "failed"]
    /\ UNCHANGED <<config, model, last_call, loaded, logits, probs,
                   encoding, parser>>

NextInsert ==
    \/ SkipEntry
    \/ InsertWord
    \/ InsertVideo
    \/ EndWord
    \/ FinalCommit
    \/ RaiseError

SpecInsert == InitInsert /\ [][NextInsert]_vars

(***************************************************************************)
(* _parse_sql_commands (create_database.py).  A text is a sequence of      *)
(* characters, each the number of its Unicode code point.                  *)
(***************************************************************************)
Newline == 10

\* the characters str.strip() removes: those for which str.isspace() holds
Whitespace ==
    (9..13)
    \cup (28..32)
    \cup {133}
    \cup {160}
    \cup {5760}
    \cup (8192..8202)
    \cup (8232..8233)
    \cup {8239}
    \cup {8287}
    \cup {12288}

IsSpace(ch) == ch \in Whitespace

RECURSIVE LStrip(_)
LStrip(t) ==
    IF t # <<>> /\ IsSpace(t[1]) THEN LStrip(Tail(t)) ELSE t

RECURSIVE RStrip(_)
RStrip(t) ==
    IF t # <<>> /\ IsSpace(t[Len(t)])
    THEN RStrip(SubSeq(t, 1, Len(t) - 1)) ELSE t

\* str.strip()
Strip(t) == RStrip(LStrip(t))

\* str.upper() character by character.  UpperRuns lists the characters
\* with a one-character upper case as <<first, last, step, offset>>: every
\* step-th character from first to last is moved by offset.
\* UpperExpansions lists the characters whose upper case is several
\* characters.  Every other character is its own upper case.
UpperRuns ==
    {<<97, 122, 1, -32>>, <<181, 181, 1, 743>>, <<224, 246, 1, -32>>,
      <<248, 254, 1, -32>>, <<255, 255, 1, 121>>, <<257, 303, 2, -1>>,
      <<305, 305, 1, -232>>, <<307, 311, 2, -1>>, <<314, 328, 2, -1>>,
      <<331, 375, 2, -1>>, <<378, 382, 2, -1>>, <<383, 383, 1, -300>>,
      <<384, 384, 1, 195>>, <<387, 389, 2, -1>>, <<392, 392, 1, -1>>,
      <<396, 396, 1, -1>>, <<402, 402, 1, -1>>, <<405, 405, 1, 97>>,
      <<409, 409, 1, -1>>, <<410, 410, 1, 163>>, <<414, 414, 1, 130>>,
      <<417, 421, 2, -1>>, <<424, 424, 1, -1>>, <<429, 429, 1, -1>>,
      <<432, 432, 1, -1>>, <<436, 438, 2, -1>>, <<441, 441, 1, -1>>,
      <<445, 445, 1, -1>>, <<447, 447, 1, 56>>, <<453, 453, 1, -1>>,
      <<454, 454, 1, -2>>, <<456, 456, 1, -1>>, <<457, 457, 1, -2>>,
      <<459, 459, 1, -1>>, <<460, 460, 1, -2>>, <<462, 476, 2, -1>>,
      <<477, 477, 1, -79>>, <<479, 495, 2, -1>>, <<498, 498, 1, -1>>,
      <<499, 499, 1, -2>>, <<501, 501, 1, -1>>, <<505, 543, 2, -1>>,
      <<547, 563, 2, -1>>, <<572, 572, 1, -1>>, <<575, 576, 1, 10815>>,
      <<578, 578, 1, -1>>, <<583, 591, 2, -1>>, <<592, 592, 1, 10783>>,
      <<593, 593, 1, 10780>>, <<594, 594, 1, 10782>>,
      <<595, 595, 1, -210>>, <<596, 596, 1, -206>>, <<598, 599, 1, -205>>,
      <<601, 601, 1, -202>>, <<603, 603, 1, -203>>, <<604, 604, 1, 42319>>,
      <<608, 608, 1, -205>>, <<609, 609, 1, 42315>>, <<611, 611, 1, -207>>,
      <<613, 613, 1, 42280>>, <<614, 614, 1, 42308>>,
      <<616, 616, 1, -209>>, <<617, 617, 1, -211>>, <<618, 618, 1, 42308>>,
      <<619, 619, 1, 10743>>, <<620, 620, 1, 42305>>,
      <<623, 623, 1, -211>>, <<625, 625, 1, 10749>>, <<626, 626, 1, -213>>,
      <<629, 629, 1, -214>>, <<637, 637, 1, 10727>>, <<640, 640, 1, -218>>,
      <<642, 642, 1, 42307>>, <<643, 643, 1, -218>>,
      <<647, 647, 1, 42282>>, <<648, 648, 1, -218>>, <<649, 649, 1, -69>>,
      <<650, 651, 1, -217>>, <<652, 652, 1, -71>>, <<658, 658, 1, -219>>,
      <<669, 669, 1, 42261>>, <<670, 670, 1, 42258>>, <<837, 837, 1, 84>>,
      <<881, 883, 2, -1>>, <<887, 887, 1, -1>>, <<891, 893, 1, 130>>,
      <<940, 940, 1, -38>>, <<941, 943, 1, -37>>, <<945, 961, 1, -32>>,
      <<962, 962, 1, -31>>, <<963, 971, 1, -32>>, <<972, 972, 1, -64>>,
      <<973, 974, 1, -63>>, <<976, 976, 1, -62>>, <<977, 977, 1, -57>>,
      <<981, 981, 1, -47>>, <<982, 982, 1, -54>>, <<983, 983, 1, -8>>,
      <<985, 1007, 2, -1>>, <<1008, 1008, 1, -86>>, <<1009, 1009, 1, -80>>,
      <<1010, 1010, 1, 7>>, <<1011, 1011, 1, -116>>,
      <<1013, 1013, 1, -96>>, <<1016, 1016, 1, -1>>, <<1019, 1019, 1, -1>>,
      <<1072, 1103, 1, -32>>, <<1104, 1119, 1, -80>>,
      <<1121, 1153, 2, -1>>, <<1163, 1215, 2, -1>>, <<1218, 1230, 2, -1>>,
      <<1231, 1231, 1, -15>>, <<1233, 1327, 2, -1>>,
      <<1377, 1414, 1, -48>>, <<4304, 4346, 1, 3008>>,
      <<4349, 4351, 1, 3008>>, <<5112, 5117, 1, -8>>,
      <<7296, 7296, 1, -6254>>, <<7297, 7297, 1, -6253>>,
      <<7298, 7298, 1, -6244>>, <<7299, 7300, 1, -6242>>,
      <<7301, 7301, 1, -6243>>, <<7302, 7302, 1, -6236>>,
      <<7303, 7303, 1, -6181>>, <<7304, 7304, 1, 35266>>,
      <<7545, 7545, 1, 35332>>, <<7549, 7549, 1, 3814>>,
      <<7566, 7566, 1, 35384>>, <<7681, 7829, 2, -1>>,
      <<7835, 7835, 1, -59>>, <<7841, 7935, 2, -1>>, <<7936, 7943, 1, 8>>,
      <<7952, 7957, 1, 8>>, <<7968, 7975, 1, 8>>, <<7984, 7991, 1, 8>>,
      <<8000, 8005, 1, 8>>, <<8017, 8023, 2, 8>>, <<8032, 8039, 1, 8>>,
      <<8048, 8049, 1, 74>>, <<8050, 8053, 1, 86>>, <<8054, 8055, 1, 100>>,
      <<8056, 8057, 1, 128>>, <<8058, 8059, 1, 112>>,
      <<8060, 8061, 1, 126>>, <<8112, 8113, 1, 8>>,
      <<8126, 8126, 1, -7205>>, <<8144, 8145, 1, 8>>, <<8160, 8161, 1, 8>>,
      <<8165, 8165, 1, 7>>, <<8526, 8526, 1, -28>>, <<8560, 8575, 1, -16>>,
      <<8580, 8580, 1, -1>>, <<9424, 9449, 1, -26>>,
      <<11312, 11359, 1, -48>>, <<11361, 11361, 1, -1>>,
      <<11365, 11365, 1, -10795>>, <<11366, 11366, 1, -10792>>,
      <<11368, 11372, 2, -1>>, <<11379, 11379, 1, -1>>,
      <<11382, 11382, 1, -1>>, <<11393, 11491, 2, -1>>,
      <<11500, 11502, 2, -1>>, <<11507, 11507, 1, -1>>,
      <<11520, 11557, 1, -7264>>, <<11559, 11559, 1, -7264>>,
      <<11565, 11565, 1, -7264>>, <<42561, 42605, 2, -1>>,
      <<42625, 42651, 2, -1>>, <<42787, 42799, 2, -1>>,
      <<42803, 42863, 2, -1>>, <<42874, 42876, 2, -1>>,
      <<42879, 42887, 2, -1>>, <<42892, 42892, 1, -1>>,
      <<42897, 42899, 2, -1>>, <<42900, 42900, 1, 48>>,
      <<42903, 42921, 2, -1>>, <<42933, 42947, 2, -1>>,
      <<42952, 42954, 2, -1>>, <<42961, 42961, 1, -1>>,
      <<42967, 42969, 2, -1>>, <<42998, 42998, 1, -1>>,
      <<43859, 43859, 1, -928>>, <<43888, 43967, 1, -38864>>,
      <<65345, 65370, 1, -32>>, <<66600, 66639, 1, -40>>,
      <<66776, 66811, 1, -40>>, <<66967, 67003, 2, -39>>,
      <<66968, 66976, 2, -39>>, <<66980, 66992, 2, -39>>,
      <<66996, 67000, 2, -39>>, <<67004, 67004, 1, -39>>,
      <<68800, 68850, 1, -64>>, <<71872, 71903, 1, -32>>,
      <<93792, 93823, 1, -32>>, <<125218, 125251, 1, -34>>}

UpperExpansions ==
    {<<223, <<83, 83>>>>, <<329, <<700, 78>>>>, <<496, <<74, 780>>>>,
      <<912, <<921, 776, 769>>>>, <<944, <<933, 776, 769>>>>,
      <<1415, <<1333, 1362>>>>, <<7830, <<72, 817>>>>,
      <<7831, <<84, 776>>>>, <<7832, <<87, 778>>>>, <<7833, <<89, 778>>>>,
      <<7834, <<65, 702>>>>, <<8016, <<933, 787>>>>,
      <<8018, <<933, 787, 768>>>>, <<8020, <<933, 787, 769>>>>,
      <<8022, <<933, 787, 834>>>>, <<8064, <<7944, 921>>>>,
      <<8065, <<7945, 921>>>>, <<8066, <<7946, 921>>>>,
      <<8067, <<7947, 921>>>>, <<8068, <<7948, 921>>>>,
      <<8069, <<7949, 921>>>>, <<8070, <<7950, 921>>>>,
      <<8071, <<7951, 921>>>>, <<8072, <<7944, 921>>>>,
      <<8073, <<7945, 921>>>>, <<8074, <<7946, 921>>>>,
      <<8075, <<7947, 921>>>>, <<8076, <<7948, 921>>>>,
      <<8077, <<7949, 921>>>>, <<8078, <<7950, 921>>>>,
      <<8079, <<7951, 921>>>>, <<8080, <<7976, 921>>>>,
      <<8081, <<7977, 921>>>>, <<8082, <<7978, 921>>>>,
      <<8083, <<7979, 921>>>>, <<8084, <<7980, 921>>>>,
      <<8085, <<7981, 921>>>>, <<8086, <<7982, 921>>>>,
      <<8087, <<7983, 921>>>>, <<8088, <<7976, 921>>>>,
      <<8089, <<7977, 921>>>>, <<8090, <<7978, 921>>>>,
      <<8091, <<7979, 921>>>>, <<8092, <<7980, 921>>>>,
      <<8093, <<7981, 921>>>>, <<8094, <<7982, 921>>>>,
      <<8095, <<7983, 921>>>>, <<8096, <<8040, 921>>>>,
      <<8097, <<8041, 921>>>>, <<8098, <<8042, 921>>>>,
      <<8099, <<8043, 921>>>>, <<8100, <<8044, 921>>>>,
      <<8101, <<8045, 921>>>>, <<8102, <<8046, 921>>>>,
      <<8103, <<8047, 921>>>>, <<8104, <<8040, 921>>>>,
      <<8105, <<8041, 921>>>>, <<8106, <<8042, 921>>>>,
      <<8107, <<8043, 921>>>>, <<8108, <<8044, 921>>>>,
      <<8109, <<8045, 921>>>>, <<8110, <<8046, 921>>>>,
      <<8111, <<8047, 921>>>>, <<8114, <<8122, 921>>>>,
      <<8115, <<913, 921>>>>, <<8116, <<902, 921>>>>,
      <<8118, <<913, 834>>>>, <<8119, <<913, 834, 921>>>>,
      <<8124, <<913, 921>>>>, <<8130, <<8138, 921>>>>,
      <<8131, <<919, 921>>>>, <<8132, <<905, 921>>>>,
      <<8134, <<919, 834>>>>, <<8135, <<919, 834, 921>>>>,
      <<8140, <<919, 921>>>>, <<8146, <<921, 776, 768>>>>,
      <<8147, <<921, 776, 769>>>>, <<8150, <<921, 834>>>>,
      <<8151, <<921, 776, 834>>>>, <<8162, <<933, 776, 768>>>>,
      <<8163, <<933, 776, 769>>>>, <<8164, <<929, 787>>>>,
      <<8166, <<933, 834>>>>, <<8167, <<933, 776, 834>>>>,
      <<8178, <<8186, 921>>>>, <<8179, <<937, 921>>>>,
      <<8180, <<911, 921>>>>, <<8182, <<937, 834>>>>,
      <<8183, <<937, 834, 921>>>>, <<8188, <<937, 921>>>>,
      <<64256, <<70, 70>>>>, <<64257, <<70, 73>>>>, <<64258, <<70, 76>>>>,
      <<64259, <<70, 70, 73>>>>, <<64260, <<70, 70, 76>>>>,
      <<64261, <<83, 84>>>>, <<64262, <<83, 84>>>>,
      <<64275, <<1348, 1350>>>>, <<64276, <<1348, 1333>>>>,
      <<64277, <<1348, 1339>>>>, <<64278, <<1358, 1350>>>>,
      <<64279, <<1348, 1341>>>>}

UpperChar(ch) ==
    IF \E x \in UpperExpansions : x[1] = ch
    THEN (CHOOSE x \in UpperExpansions : x[1] = ch)[2]
    ELSE IF \E r \in UpperRuns :
                r[1] <= ch /\ ch <= r[2] /\ (ch - r[1]) % r[3] = 0
    THEN <<ch + (CHOOSE r \in UpperRuns :
                    r[1] <= ch /\ ch <= r[2] /\ (ch - r[1]) % r[3] = 0)[4]>>
    ELSE <<ch>>

\* str.upper()
RECURSIVE Upper(_)
Upper(t) == IF t = <<>> THEN <<>> ELSE UpperChar(t[1]) \o Upper(Tail(t))

\* str.startswith(prefix), str.endswith(suffix)
StartsWith(t, prefix) ==
    Len(t) >= Len(prefix) /\ SubSeq(t, 1, Len(prefix)) = prefix

EndsWith(t, suffix) ==
    Len(t) >= Len(suffix)
    /\ SubSeq(t, Len(t) - Len(suffix) + 1, Len(t)) = suffix

\* str.split('\n'): the pieces between the newlines, empty ones included
RECURSIVE SplitLines(_, _)
SplitLines(t, piece) ==
    IF t = <<>> THEN <<piece>>
    ELSE IF t[1] = Newline THEN <<piece>> \o SplitLines(Tail(t), <<>>)
    ELSE SplitLines(Tail(t), Append(piece, t[1]))

\* '\n'.join(lines)
RECURSIVE JoinLines(_)
JoinLines(lines) ==
    IF lines = <<>> THEN <<>>
    ELSE IF Len(lines) = 1 THEN lines[1]
    ELSE lines[1] \o <<Newline>> \o JoinLines(Tail(lines))

\* '--' and '#'
CommentMarkers == {<<45, 45>>, <<35>>}

\* 'DELIMITER', 'USE ' and 'SHOW '
IgnoredKeywords ==
    {<<68, 69, 76, 73, 77, 73, 84, 69, 82>>,
     <<85, 83, 69, 32>>,
     <<83, 72, 79, 87, 32>>}

\* ';'
Semicolon == 59

\* line.strip().startswith('--') or line.strip().startswith('#')
IsComment(line) == \E x \in CommentMarkers : StartsWith(Strip(line), x)

\* not line.strip()
IsBlank(line) == Strip(line) = <<>>

\* variant: the keywords compared without upper()
IsIgnoredKeywordCaseSensitive(line) ==
    \E x \in IgnoredKeywords : StartsWith(Strip(line), x)

\* any(line.strip().upper().startswith(x) for x in [...])
IsIgnoredKeyword(line) ==
    \E x \in IgnoredKeywords : StartsWith(Upper(Strip(line)), x)

\* the loop over the lines, from line k on
RECURSIVE ParseLines(_, _, _, _)
ParseLines(lines, k, current_command, commands) ==
    IF k > Len(lines) THEN commands
    ELSE LET line == lines[k]
         IN  IF IsComment(line) \/ IsBlank(line) \/ IsIgnoredKeyword(line)
             THEN ParseLines(lines, k + 1, current_command, commands)
             ELSE IF EndsWith(Strip(line), <<Semicolon>>)
             THEN ParseLines(lines, k + 1, <<>>,
                             Append(commands,
                                    JoinLines(Append(current_command, line))))
             ELSE ParseLines(lines, k + 1, Append(current_command, line),
                             commands)

_parse_sql_commands(sql_text) ==
    ParseLines(SplitLines(sql_text, <<>>), 1, <<>>, <<>>)

\* the lines a text is written with:
\*   ""
\*   " \t"
\*   "-- a;"
\*   " #a"
\*   "Use a;"
\*   "SHOW"
\*   "delimiter ;"
\*   " a"
\*   "b; "
\*   "c;d"
\*   "U+00A0b;\f"
\*   "uU+017Fe a;"
LineChoices ==
    {<<>>,
     <<32, 9>>,
     <<45, 45, 32, 97, 59>>,
     <<32, 35, 97>>,
     <<85, 115, 101, 32, 97, 59>>,
     <<83, 72, 79, 87>>,
     <<100, 101, 108, 105, 109, 105, 116, 101, 114, 32, 59>>,
     <<32, 97>>,
     <<98, 59, 32>>,
     <<99, 59, 100>>,
     <<160, 98, 59, 12>>,
     <<117, 383, 101, 32, 97, 59>>}

SqlTexts ==
    {JoinLines(lines) :
        lines \in UNION {[1..n -> LineChoices] : n \in 0..MaxLines}}

InitParse ==
    /\ config = NoConfig
    /\ model = NoModel
    /\ last_call = NoCall
    /\ loaded = NoModel
    /\ logits = <<>>
    /\ probs = <<>>
    /\ encoding = NoEncoding
    /\ loader = NoLoader
    /\ parser \in {[pc |-> "text", sql_text |-> t, commands |-> <<>>] :
                      t \in SqlTexts}

\* if parts[0]: commands = _parse_sql_commands(parts[0])
Parse ==
    /\ parser.pc = "text"
    /\ parser.sql_text # <<>>
    /\ parser' = [parser EXCEPT
                     !.pc = "parsed",
                     !.commands = _parse_sql_commands(parser.sql_text)]
    /\ UNCHANGED <<config, model, last_call, loaded, logits, probs,
                   encoding, loader>>

NextParse == Parse

SpecParse == InitParse /\ [][NextParse]_vars

(***************************************************************************)
(* Properties.                                                             *)
(***************************************************************************)
Attempted == model.status # "none"

Called == last_call.status # "none"

Returned == last_call.status = "ok"

\* the invariants the specification states for a Configuration
ValidConfiguration(c) ==
    /\ c.transformer_dim % c.transformer_heads = 0
    /\ 0 <= c.dropout_rate /\ c.dropout_rate < RateUnit
    /\ Len(c.cnn_filters) >= 1

WellShaped(c) ==
    /\ c.in_shape[2] = config.num_frames
    /\ c.in_shape[3] = config.num_landmarks

\* the trace entries of one layer, and of one operation of it, in order
OpsOf(c, layer) == SelectSeq(c.trace, LAMBDA o : o.layer = layer)

OpOf(c, layer, op) ==
    SelectSeq(c.trace, LAMBDA o : o.layer = layer /\ o.op = op)

\* C1: for every Configuration satisfying the stated invariants (embedding
\* width divisible by the head count, dropout rate in [0, 1), a non-empty
\* filter list of any length), with at least a pooling window of frames and
\* one class, construction succeeds and every evaluation of a batch of B
\* sequences of shape (num_frames, num_landmarks) returns shape
\* (B, num_classes).
C1_ValidConfigurationEvaluates ==
    (/\ Attempted
     /\ ValidConfiguration(config)
     /\ config.num_frames >= pool_size
     /\ config.num_classes >= 1)
    => /\ model.status = "built"
       /\ (Called /\ WellShaped(last_call))
          => /\ last_call.status = "ok"
             /\ last_call.out_shape
                   = <<last_call.in_shape[1], config.num_classes>>

\* C2: every output row has all its entries in [0, 1] and sums to 1 within
\* 1e-5, in both modes.
C2_RowsAreDistributions ==
    probs # <<>>
    => /\ Len(probs) = config.num_classes
       /\ \A i \in 1..Len(probs) : 0 <= probs[i] /\ probs[i] <= ProbScale
       /\ SumSeq(probs) - ProbScale <= Tolerance
       /\ ProbScale - SumSeq(probs) <= Tolerance

\* C2 witness: a row over several classes with unequal logits was computed
C2_Witness ==
    /\ Len(probs) >= 2
    /\ \E i, j \in 1..Len(probs) : logits[i] # logits[j]

\* C3: construction with an embedding width that the head count does not
\* divide raises an error and produces no model.
C3_IndivisibleHeadsRejected ==
    (Attempted /\ config.transformer_dim % config.transformer_heads # 0)
    => model.status = "failed"

\* C4: construction fails, and produces no model, whenever the filter list
\* is empty, the dropout rate is outside [0, 1), or num_classes <= 0.
C4_InvalidConfigurationRejected ==
    (/\ Attempted
     /\ \/ Len(config.cnn_filters) = 0
        \/ config.dropout_rate < 0
        \/ config.dropout_rate >= RateUnit
        \/ config.num_classes <= 0)
    => model.status = "failed"

\* C5: an evaluation whose input differs from the configuration in frame
\* count or landmark width raises an error to the caller and returns no
\* output, not even a partial one.
C5_ShapeMismatchRaises ==
    (Called /\ ~WellShaped(last_call))
    => /\ last_call.status = "error"
       /\ last_call.error = "ValueError"
       /\ last_call.out_shape = NoShape
       /\ last_call.rows = <<>>
       /\ last_call.trace = <<>>

\* C5 witness: a call with a landmark missing was rejected
C5_Witness ==
    /\ Called
    /\ last_call.in_shape[3] = config.num_landmarks - 1
    /\ last_call.status = "error"

\* C6: the value added at position p, channel i is sin(angle(p, i)) for
\* even i and cos(angle(p, i)) for odd i: channel i is computed from angle
\* column i.
C6_ChannelUsesOwnAngleColumn ==
    Returned
    => \A p \in 1..Len(last_call.pe) :
          \A i \in 1..Len(last_call.pe[p]) :
              last_call.pe[p][i]
                  = IF (i - 1) % 2 = 0 THEN Sin(Angle(p - 1, i - 1))
                                       ELSE Cos(Angle(p - 1, i - 1))

\* input and output of the attention block in a call
BlockInput(c) == OpOf(c, "pos_dropout", "dropout")[1].shape

BlockOutput(c) ==
    LET ops == OpsOf(c, "transformer_block") IN ops[Len(ops)].shape

\* C7: whenever the head count divides the embedding width, the attention
\* block accepts its (L, D) input and returns an output of the same shape,
\* in both modes.
C7_BlockPreservesShape ==
    (Attempted /\ config.transformer_dim % config.transformer_heads = 0)
    => /\ model.failed_at # "transformer_block"
       /\ Returned
          => /\ Len(OpsOf(last_call, "transformer_block")) > 0
             /\ BlockOutput(last_call) = BlockInput(last_call)
             /\ BlockInput(last_call)
                   = <<config.num_frames \div pool_size, config.transformer_dim>>

\* C7 witness: a block whose feed-forward width differs from its embedding
\* width ran in training mode on more than one position
C7_Witness ==
    /\ Returned
    /\ config.transformer_dim % config.transformer_heads = 0
    /\ config.transformer_dim # config.ff_dim
    /\ last_call.mode = "training"
    /\ BlockOutput(last_call)[1] > 1

\* C8: for every input length n >= 1 the extractor is constructed, both
\* convolution stages keep the sequence length n and the pooling stage
\* outputs floor(n / 2), odd n included.
C8_ExtractorLengths ==
    /\ (Attempted /\ config.num_frames >= 1 /\ Len(config.cnn_filters) >= 2)
       => model.failed_at
             \notin {"conv1d_1", "bn_1", "conv1d_2", "bn_2", "maxpool"}
    /\ Returned
       => LET n == last_call.in_shape[2]
          IN  /\ OpOf(last_call, "conv1d_1", "conv1d")[1].shape[1] = n
              /\ OpOf(last_call, "bn_1", "batchnorm")[1].shape[1] = n
              /\ OpOf(last_call, "conv1d_2", "conv1d")[1].shape[1] = n
              /\ OpOf(last_call, "bn_2", "batchnorm")[1].shape[1] = n
              /\ OpOf(last_call, "maxpool", "maxpool")[1].shape[1] = n \div 2

\* the original model with the parameter values it had when it was saved
\* the rebuilt model given the parameter values of the original
Reloaded == [loaded EXCEPT !.stats = model.stats]

InferenceOutput(m, batch) ==
    Forward(m, "inference", batch, model.input_shape[1],
            model.input_shape[2], 0)

\* C9: a model reconstructed from the configurations of its layers
\* (get_config of the custom layers included) and given the parameter
\* values of the original gives, in inference mode, the output of the
\* original for every valid input.
C9_SaveLoadRoundTrip ==
    loaded.status # "none"
    => /\ loaded.status = "built"
       /\ \A batch \in Batches :
             /\ InferenceOutput(Reloaded, batch).status = "ok"
             /\ InferenceOutput(Reloaded, batch)
                   = InferenceOutput(model, batch)

\* C9 witness: a model was rebuilt from its configurations, and training
\* passes had moved the running statistics of the original
C9_Witness ==
    /\ loaded.status = "built"
    /\ model.stats > 0
    /\ config.transformer_heads # config.transformer_dim

\* the output rows of call c had its batch been other, from the same
\* parameters, mode and dropout mask
RowsFor(c, other) ==
    Forward([model EXCEPT !.stats = c.stats], c.mode, other,
            c.in_shape[2], c.in_shape[3], c.seed).out.rows

\* batches that keep the sequence at position b of batch and any other
\* sequences around it
Replacements(batch, b) ==
    {other \in Batches : Len(other) = Len(batch) /\ other[b] = batch[b]}

\* C10 as stated: in training mode as well as inference mode, replacing the
\* other sequences of a batch leaves a sequence's output row unchanged.
C10_RowIndependentOfBatch ==
    Returned
    => \A b \in 1..Len(last_call.batch) :
          \A other \in Replacements(last_call.batch, b) :
              RowsFor(last_call, other)[b] = last_call.rows[b]

\* C10 amended: in inference mode, replacing the other sequences of a batch
\* leaves a sequence's output row unchanged.
C10_InferenceRowIndependentOfBatch ==
    (Returned /\ last_call.mode = "inference")
    => \A b \in 1..Len(last_call.batch) :
          \A other \in Replacements(last_call.batch, b) :
              RowsFor(last_call, other)[b] = last_call.rows[b]

\* C10 witness: an inference call on a batch of two different sequences,
\* after a training pass
C10_Witness ==
    /\ Returned
    /\ last_call.mode = "inference"
    /\ Len(last_call.batch) >= 2
    /\ last_call.batch[1] # last_call.batch[2]
    /\ last_call.stats > 0


\* the batch-normalization and dropout entries of a call's trace behave as
\* the given mode prescribes
ModeBehaviour(c, mode) ==
    \A i \in 1..Len(c.trace) :
        LET o == c.trace[i]
        IN  /\ o.op = "batchnorm"
               => o.how = (IF mode = "training" THEN "batch" ELSE "moving")
            /\ o.op = "dropout"
               => /\ mode = "inference" => o.how = "identity"
                  /\ o.how = "drop" => mode = "training"

\* C11: mode is a per-call flag with no persistent effect.  In every
\* interleaving of evaluations under different modes, an evaluation runs its
\* dropout and normalization as its own mode prescribes, applying the
\* operations the model applies in that mode before any training; it
\* writes nothing of the Model but the running statistics; only a
\* training-mode evaluation writes them, and an inference-mode evaluation
\* leaves the Model unchanged.
C11_ModeIsPerCall ==
    /\ [](Called
          => /\ ModeBehaviour(last_call, last_call.mode)
             /\ last_call.trace
                   = Forward([model EXCEPT !.stats = 0], last_call.mode,
                             last_call.batch, last_call.in_shape[2],
                             last_call.in_shape[3], last_call.seed).out.trace)
    /\ [][last_call' # last_call
          => /\ [model' EXCEPT !.stats = 0] = [model EXCEPT !.stats = 0]
             /\ model'.stats # model.stats => last_call'.mode = "training"
             /\ last_call'.mode = "inference" => model' = model
         ]_vars

\* C11 witness: an inference-mode evaluation returned after training-mode
\* evaluations had written the running statistics, and left them as they were
C11_Witness ==
    /\ Returned
    /\ last_call.mode = "inference"
    /\ last_call.stats >= 1
    /\ model.stats = last_call.stats

\* C12: an inference-mode evaluation made before any training-mode
\* evaluation has initialized the running statistics returns its output
\* together with an UninitializedStateWarning.
C12_UninitializedStatisticsWarned ==
    (Called /\ WellShaped(last_call) /\ last_call.mode = "inference"
     /\ last_call.stats = 0)
    => /\ last_call.status = "ok"
       /\ "UninitializedStateWarning" \in last_call.warnings


\* the operations of one convolution stage, in order
ConvStageOps(c, conv, bn) ==
    LET ops == SelectSeq(c.trace, LAMBDA o : o.layer \in {conv, bn})
    IN  [i \in 1..Len(ops) |-> <<ops[i].op, ops[i].how, ops[i].n>>]

ConvStages == {<<"conv1d_1", "bn_1">>, <<"conv1d_2", "bn_2">>}

\* C13: each of the two convolution stages applies the convolution (kernel
\* 3, length-preserving padding), then batch normalization, then ReLU: the
\* activation is applied to the normalized values.
C13_ConvThenNormThenRelu ==
    Returned
    => \A st \in ConvStages :
          \E how \in {"batch", "moving"} :
              ConvStageOps(last_call, st[1], st[2])
                 = << <<"conv1d", "same", 3>>, <<"batchnorm", how, 0>>,
                      <<"activation", "relu", 0>> >>

\* C13 as amended: each of the two convolution stages applies the
\* convolution (kernel 3, length-preserving padding), then ReLU, then batch
\* normalization: the normalization is applied to the activated values.
C13_ConvThenReluThenNorm ==
    Returned
    => \A st \in ConvStages :
          \E how \in {"batch", "moving"} :
              ConvStageOps(last_call, st[1], st[2])
                 = << <<"conv1d", "same", 3>>, <<"activation", "relu", 0>>,
                      <<"batchnorm", how, 0>> >>

\* C13 witness: an evaluation ran both convolution stages
C13_Witness ==
    /\ Returned
    /\ \A st \in ConvStages : Len(ConvStageOps(last_call, st[1], st[2])) = 3

\* the operations of the attention block, in order
BlockOps(c) ==
    LET ops == OpsOf(c, "transformer_block")
    IN  [i \in 1..Len(ops) |-> <<ops[i].op, ops[i].how>>]

\* C14: the attention block computes, in order: unmasked self-attention of
\* the input with itself; dropout on the attention output; the residual sum
\* with the original input and layer normalization, giving X1; the
\* feed-forward network dense(F, relu) then dense(D) on X1; dropout on its
\* output; the residual sum with X1 and the second layer normalization.
\* Both dropouts are the identity in inference mode and active only in
\* training mode.
C14_BlockOrder ==
    Returned
    => LET ops == OpsOf(last_call, "transformer_block")
           drop == IF last_call.mode = "training" /\ config.dropout_rate > 0
                   THEN "drop" ELSE "identity"
       IN  /\ BlockOps(last_call)
                 = << <<"attention", "self">>, <<"dropout", drop>>,
                      <<"add", "inputs">>, <<"layernorm", "1">>,
                      <<"dense", "linear">>, <<"activation", "relu">>,
                      <<"dense", "linear">>, <<"dropout", drop>>,
                      <<"add", "x">>, <<"layernorm", "2">> >>
           /\ ops[5].n = config.ff_dim
           /\ ops[7].n = config.transformer_dim
           /\ last_call.mode = "inference"
              => ops[2].how = "identity" /\ ops[8].how = "identity"

\* C14 witness: the block ran in training mode with both dropouts active
C14_Witness ==
    /\ Returned
    /\ last_call.mode = "training"
    /\ Len(OpsOf(last_call, "transformer_block")) = 10
    /\ OpsOf(last_call, "transformer_block")[2].how = "drop"
    /\ OpsOf(last_call, "transformer_block")[8].how = "drop"

\* a sequence without its consecutive repetitions
RECURSIVE Collapse(_)
Collapse(q) ==
    IF Len(q) <= 1 THEN q
    ELSE IF q[1] = q[2] THEN Collapse(Tail(q))
    ELSE <<q[1]>> \o Collapse(Tail(q))

\* the stage of the stated data flow a layer belongs to
StageOf(layer) ==
    CASE layer \in {"conv1d_1", "bn_1", "conv1d_2", "bn_2", "maxpool"}
            -> "LocalFeatureExtractor"
      [] layer = "projection" -> "Projector"
      [] layer = "positional_encoding" -> "PositionalEncoder"
      [] layer = "transformer_block" -> "AttentionBlock"
      [] layer \in {"global_avg_pool", "dense_1", "dropout_1", "dense_2",
                    "dropout_2", "output"} -> "ClassificationHead"
      [] OTHER -> layer

\* the stages a call went through, in order; with active only, the
\* operations that were the identity are left out
StageOrder(c, active) ==
    LET ops == SelectSeq(c.trace,
                         LAMBDA o : ~active \/ o.how # "identity")
    IN  Collapse([i \in 1..Len(ops) |-> StageOf(ops[i].layer)])

LayerOrder(c) == Collapse([i \in 1..Len(c.trace) |-> c.trace[i].layer])

\* the operation whose output enters the attention block
BeforeBlock(c, active) ==
    LET ops == SelectSeq(c.trace,
                         LAMBDA o : ~active \/ o.how # "identity")
        i == CHOOSE k \in 1..Len(ops) :
                 /\ ops[k].layer = "transformer_block"
                 /\ \A j \in 1..(k - 1) : ops[j].layer # "transformer_block"
    IN  ops[i - 1]

\* C15: the assembled model applies exactly the stages of the stated data
\* flow, in the stated order, with nothing else between them: local feature
\* extractor, projector, positional encoder, attention block, classification
\* head; the attention block's input is the positional encoder's output and
\* has channel width embedding_dim whatever the filter widths are.
\* (Operations that are the identity in the call are not counted.)
C15_StatedStagesOnly ==
    Returned
    => /\ StageOrder(last_call, TRUE)
             = <<"LocalFeatureExtractor", "Projector", "PositionalEncoder",
                 "AttentionBlock", "ClassificationHead">>
       /\ BeforeBlock(last_call, TRUE).layer = "positional_encoding"
       /\ LastDim(BeforeBlock(last_call, TRUE).shape) = config.transformer_dim

\* C15 as amended: the assembled model applies, in order and with nothing
\* else between them, the local feature extractor, the projector, the
\* positional encoder, a dropout of rate dropout_rate (the identity in
\* inference mode), the attention block and the classification head; the
\* attention block's input is the positional encoder's output passed through
\* that dropout, with the same shape, and has channel width embedding_dim
\* whatever the filter widths are.
C15_StagesWithPositionalDropout ==
    Returned
    => /\ LayerOrder(last_call)
             = <<"conv1d_1", "bn_1", "conv1d_2", "bn_2", "maxpool",
                 "projection", "positional_encoding", "pos_dropout",
                 "transformer_block", "global_avg_pool", "dense_1",
                 "dropout_1", "dense_2", "dropout_2", "output">>
       /\ StageOrder(last_call, FALSE)
             = <<"LocalFeatureExtractor", "Projector", "PositionalEncoder",
                 "pos_dropout", "AttentionBlock", "ClassificationHead">>
       /\ BeforeBlock(last_call, FALSE).layer = "pos_dropout"
       /\ BeforeBlock(last_call, FALSE).op = "dropout"
       /\ last_call.mode = "inference"
          => BeforeBlock(last_call, FALSE).how = "identity"
       /\ BeforeBlock(last_call, FALSE).shape
             = OpOf(last_call, "positional_encoding", "add_positions")[1].shape
       /\ LastDim(BlockInput(last_call)) = config.transformer_dim

\* C15 witness: a training-mode evaluation in which the dropout between the
\* positional encoder and the attention block was active, with filter widths
\* that differ from embedding_dim
C15_Witness ==
    /\ Returned
    /\ last_call.mode = "training"
    /\ OpOf(last_call, "pos_dropout", "dropout")[1].how = "drop"
    /\ config.cnn_filters[2] # config.transformer_dim

\* C16: mode is an explicit, non-defaulted parameter of every evaluation:
\* an evaluation that does not state its mode is not accepted, and is never
\* silently run as training or inference.
C16_UnstatedModeRejected ==
    (Called /\ last_call.mode_arg = "unspecified")
    => /\ last_call.status = "error"
       /\ last_call.rows = <<>>


\* C17: for every L >= 1 and every D >= 1, odd D included, the positional
\* matrix the layer builds has exactly L rows and D columns after the final
\* truncation, so the addition to the (L, D) input is shape-compatible and
\* the output has the input's shape.
C17_PositionalMatrixShape ==
    encoding.done
    => /\ Len(encoding.out.pe) = encoding.L
       /\ \A p \in 1..Len(encoding.out.pe) :
             Len(encoding.out.pe[p]) = encoding.D
       /\ encoding.out.shape = <<encoding.L, encoding.D>>

\* C17 witness: the layer was applied to several positions of an odd width
C17_Witness ==
    /\ encoding.done
    /\ encoding.L >= 2
    /\ encoding.D >= 3
    /\ encoding.D % 2 = 1


\* the positions of the entries that are not skipped, in input order
NonSkipped(data) ==
    SelectSeq([i \in 1..Len(data) |-> i],
              LAMBDA i : data[i].instances > 0)

\* the tables holding exactly the first n non-skipped entries of data, each
\* with all of its videos
PrefixTables(data, n) ==
    LET P == NonSkipped(data)
        Latest(j) ==
            \A k \in (j + 1)..n : data[P[k]].gloss # data[P[j]].gloss
    IN  [words |-> {[gloss |-> data[P[j]].gloss,
                     sample_count |-> data[P[j]].instances] :
                       j \in {i \in 1..n : Latest(i)}},
         videos |-> UNION {{[gloss |-> data[P[j]].gloss, entry |-> P[j],
                             idx |-> v] : v \in 1..data[P[j]].instances} :
                              j \in 1..n}]

\* C18: commits happen only at word boundaries, after every 100th
\* non-skipped word and once at the end, so every committed state holds a
\* prefix of the non-skipped entries in input order, each with all of its
\* videos.  When a MySQL Error occurs the work since the last commit is
\* rolled back, the final commit is not executed, and the committed state is
\* exactly the first 100 * m non-skipped words with all their videos, for
\* m = floor(k / 100), k being the number of words whose pass of the loop
\* was completed before the failure.
C18_CommittedIsWordPrefix ==
    loader.pc # "idle"
    => LET data == loader.wlasl_data
           m == loader.completed \div 100
       IN  /\ loader.pc # "done"
              => loader.committed = PrefixTables(data, 100 * m)
           /\ loader.pc = "done"
              => /\ loader.completed = Len(NonSkipped(data))
                 /\ loader.committed = PrefixTables(data, loader.completed)
           /\ loader.pc = "failed" => loader.db = loader.committed

\* C18 witness: an Error after more than 100 words, raised while rows
\* inserted since the last commit were pending
C18_Witness ==
    /\ loader.pc = "failed"
    /\ loader.completed > 100
    /\ loader.total_words > loader.completed
    /\ loader.committed.words # {}


\* a kept line: not blank, not starting with '--' or '#', not starting with
\* DELIMITER, 'USE ' or 'SHOW ' once put in upper case, all on the stripped
\* line
KeptLine(line) ==
    LET t == Strip(line)
        u == Upper(t)
    IN  /\ t # <<>>
        /\ ~StartsWith(t, <<45, 45>>)
        /\ ~StartsWith(t, <<35>>)
        /\ ~StartsWith(u, <<68, 69, 76, 73, 77, 73, 84, 69, 82>>)
        /\ ~StartsWith(u, <<85, 83, 69, 32>>)
        /\ ~StartsWith(u, <<83, 72, 79, 87, 32>>)

\* a line whose stripped text ends with ';'
Terminates(line) == LET t == Strip(line) IN t # <<>> /\ t[Len(t)] = 59

KeptLines(text) == SelectSeq(SplitLines(text, <<>>), KeptLine)

\* the positions, among the kept lines, of the terminating ones
Terminators(kept) ==
    SelectSeq([i \in 1..Len(kept) |-> i], LAMBDA i : Terminates(kept[i]))

\* C19: for every input text the parser returns, in input order, commands
\* that each consist of the consecutive kept lines up to and including the
\* first kept line whose stripped text ends with ';'; every returned command
\* ends with such a line, and the kept lines after the last terminating line
\* are never returned.
C19_CommandsAreTerminatedRuns ==
    parser.pc = "parsed"
    => LET kept == KeptLines(parser.sql_text)
           ends == Terminators(kept)
           start(j) == IF j = 1 THEN 1 ELSE ends[j - 1] + 1
       IN  /\ Len(parser.commands) = Len(ends)
           /\ \A j \in 1..Len(ends) :
                 /\ parser.commands[j]
                       = JoinLines(SubSeq(kept, start(j), ends[j]))
                 /\ Terminates(parser.commands[j])

\* C19 witness: a text parsed into a command of several lines, with kept
\* lines behind the last terminating line
C19_Witness ==
    /\ parser.pc = "parsed"
    /\ LET kept == KeptLines(parser.sql_text)
           ends == Terminators(kept)
       IN  /\ Len(ends) >= 1
           /\ ends[1] >= 2
           /\ ends[Len(ends)] < Len(kept)

====
